---- MODULE Spec2Model ----
(***************************************************************************)
(* The call-handling core of the dialler: CallService (initiateCall,       *)
(* updateCallStatus, recordCallOutcome, handleTwilioWebhook and the        *)
(* scoring helpers) over the tables of the Prisma schema (CallSession,     *)
(* AgentSession, CallQueue, CallOutcome, UserCallScore, Callback).         *)
(*                                                                         *)
(* Conventions.  An optional value (a nullable column, an optional input)  *)
(* is a set: {} is null/undefined, {v} is the value v.  Times are          *)
(* milliseconds since the start of the run, as Date.getTime() gives them.  *)
(* A table with generated ids is a sequence, a row's id being its index.   *)
(* Columns that no modelled operation reads after writing them (notes,     *)
(* direction, the claims snapshot, the sms/magic-link flags) are left out. *)
(***************************************************************************)
EXTENDS Integers, Sequences, FiniteSets, TLC

(* ------------------------------ bounds -------------------------------- *)
MaxSessions == 1
MaxOutcomes == 1
MaxTicks == 1
MaxInflight == 1
MaxCalls == 2
MaxRecorded == 2
MaxRacing == 2

Agents == {1, 2}
Users == {1, 2}
QueueIds == {1, 2}
\* a well-formed uuid that names no call_queue row
UnknownQueueIds == {9}
\* Twilio call sids handed to updateCallStatus and carried by webhooks
CallSids == {"CA1", "CA2"}
\* milliseconds the clock advances between two observations of new Date()
TickMs == 1500

(* --------------------------- optional values -------------------------- *)
Null == {}
Some(v) == {v}
Get(o) == CHOOSE v \in o : TRUE

\* JavaScript's (x || d) on an optional number: undefined and 0 are falsy
OrElse(x, d) == IF x = Null \/ x = Some(0) THEN d ELSE Get(x)

(* ------------------------------ vocabulary ---------------------------- *)
TerminalStatuses == {"completed", "failed", "no_answer"}
OpenStatuses == {"initiated", "connecting", "ringing", "connected"}
SessionStatuses == OpenStatuses \cup TerminalStatuses

\* the outcome enum of the router, and one string outside it
KnownOutcomeTypes ==
  {"contacted", "no_answer", "busy", "wrong_number", "not_interested",
   "callback_requested", "left_voicemail", "failed"}
OutcomeTypes == KnownOutcomeTypes \cup {"unrecognized"}

(* ------------------------- scoring helper tables ---------------------- *)
delayMap ==
  [contacted |-> 24, no_answer |-> 4, busy |-> 2, wrong_number |-> 48,
   not_interested |-> 48, callback_requested |-> 0, left_voicemail |-> 8,
   failed |-> 1]

adjustmentMap ==
  [contacted |-> -10, no_answer |-> 5, busy |-> 2, wrong_number |-> 50,
   not_interested |-> 100, callback_requested |-> -20, left_voicemail |-> 10,
   failed |-> 0]

\* a lookup in a Record<string, number>: undefined for a missing key
Lookup(map, key) == IF key \in DOMAIN map THEN Some(map[key]) ELSE Null

\* return delayMap[outcomeType] || 4
getDefaultDelayHours(outcomeType) == OrElse(Lookup(delayMap, outcomeType), 4)

\* return adjustmentMap[outcomeType] || 0
getScoreAdjustment(outcomeType) == OrElse(Lookup(adjustmentMap, outcomeType), 0)

HourMs == 60 * 60 * 1000

\* new Date(now.getTime() + delayHours * 60 * 60 * 1000)
calculateNextCallTime(outcomeType, t) ==
  t + getDefaultDelayHours(outcomeType) * HourMs

Max(a, b) == IF a >= b THEN a ELSE b

\* Math.floor(ms / 1000); \div rounds towards minus infinity, as floor does
FloorSeconds(ms) == ms \div 1000

(* ------------------------------- state -------------------------------- *)
VARIABLES
  now,            \* the wall clock, what new Date().getTime() returns
  callSession,    \* table call_sessions: sequence, id = index
  agentSession,   \* table agent_sessions: one row per agent
  callQueue,      \* table call_queue: one row per queue id
  callOutcome,    \* table call_outcomes: sequence, id = index
  userCallScore,  \* table user_call_scores: partial function of userId
  callback,       \* table callbacks: sequence, id = index
  inflight,       \* handlers suspended at an await: handleTwilioWebhook
                  \* between its findFirst and its updateCallStatus,
                  \* recordCallOutcome inside its transaction
  response        \* the last request served and how it ended

vars ==
  <<now, callSession, agentSession, callQueue, callOutcome, userCallScore,
    callback, inflight, response>>

\* the store as one value, as a transaction sees it
DB ==
  [callSession |-> callSession, agentSession |-> agentSession,
   callQueue |-> callQueue, callOutcome |-> callOutcome,
   userCallScore |-> userCallScore, callback |-> callback]

\* a handler that swallows what it would throw
Swallowed(error, db) == [error |-> "none", db |-> db]

\* how a handler ends: db is the store as its writes left it, error is
\* "none" or what was thrown (a refused store call is named by the call)
Returned(db) == [error |-> "none", db |-> db]
Thrown(error, db) == [error |-> error, db |-> db]

\* a handler whose writes stay when it throws
NoRollback(pre, res) == res.db

\* prisma.$transaction(async tx => ...): the writes made through tx are
\* committed when the callback returns and discarded when it throws
Transaction(pre, res) == IF res.error = "none" THEN res.db ELSE pre

(* ----------------------------- initiateCall --------------------------- *)
\* call_sessions.call_queue_id is a non-null uuid referencing call_queue.id:
\* '' (no queueId) and an id of no row are both rejected by the store
ReferencesQueue(db, queueId) ==
  queueId # Null /\ Get(queueId) \in DOMAIN db.callQueue

\* tx.callSession.create
NewCallSession(userId, agentId, queueId, t) ==
  [userId |-> userId, agentId |-> agentId, callQueueId |-> queueId,
   twilioCallSid |-> Null, status |-> "initiated", startedAt |-> t,
   connectedAt |-> Null, endedAt |-> Null, durationSeconds |-> Null,
   talkTimeSeconds |-> Null]

\* an update that puts the agent on the new call whatever the agent's status
FlipAgentAlways(agents, agentId, sessionId, t) ==
  [a \in DOMAIN agents |->
     IF a = agentId
     THEN [agents[a] EXCEPT !.status = "on_call",
                            !.currentCallSessionId = Some(sessionId)]
     ELSE agents[a]]

\* tx.agentSession.updateMany where agentId, status in (available, break)
FlipAgentOnCall(agents, agentId, sessionId, t) ==
  [a \in DOMAIN agents |->
     IF a = agentId /\ agents[a].status \in {"available", "break"}
     THEN [agents[a] EXCEPT !.status = "on_call",
                            !.currentCallSessionId = Some(sessionId)]
     ELSE agents[a]]

\* tx.callQueue.update where id = queueId, data status = assigned
AssignQueueEntry(queue, queueId) ==
  [queue EXCEPT ![queueId].status = "assigned"]

FailPointsInitiate ==
  {"none", "callSession.create", "agentSession.updateMany", "callQueue.update"}

\* the transaction body of initiateCall; fail names the store call that
\* the store refuses (a dependency failure), "none" for a healthy store
InitiateCallSteps(db, userId, agentId, queueId, fail, t) ==
  LET id == Len(db.callSession) + 1
      d1 == [db EXCEPT !.callSession =
               Append(@, NewCallSession(userId, agentId, queueId, t))]
      d2 == [d1 EXCEPT !.agentSession = FlipAgentOnCall(@, agentId, id, t)]
      d3 == IF queueId # Null
            THEN [d2 EXCEPT !.callQueue = AssignQueueEntry(@, Get(queueId))]
            ELSE d2
  IN  IF fail = "callSession.create" THEN Thrown(fail, db)
      ELSE IF ~ReferencesQueue(db, queueId) THEN Thrown("constraint", db)
      ELSE IF fail = "agentSession.updateMany" THEN Thrown(fail, d1)
      ELSE IF queueId # Null /\ fail = "callQueue.update" THEN Thrown(fail, d2)
      ELSE Returned(d3)

(* --------------------------- updateCallStatus ------------------------- *)
\* what statusMap['constructor'] is: Object, not a string
FunctionValue == "[Function: Object]"

\* a field of prisma's update data: undefined leaves the column alone
Assign(old, new) == IF new = Null THEN old ELSE new

\* an update that reckons talk time from the start of the call whenever
\* the call ends
UpdatedSessionTalkFromStart(s, u, t) ==
  [s EXCEPT
     !.status = IF u.status = Null THEN @ ELSE Get(u.status),
     !.twilioCallSid = Assign(@, u.twilioCallSid),
     !.connectedAt = Assign(@, u.connectedAt),
     !.endedAt = Assign(@, u.endedAt),
     !.durationSeconds =
        IF u.endedAt # Null
        THEN Some(FloorSeconds(Get(u.endedAt) - t)) ELSE @,
     !.talkTimeSeconds =
        IF u.endedAt # Null
        THEN Some(FloorSeconds(Get(u.endedAt) - s.startedAt)) ELSE @]

\* the data of callSession.update in updateCallStatus
UpdatedSession(s, u, t) ==
  [s EXCEPT
     !.status = IF u.status = Null THEN @ ELSE Get(u.status),
     !.twilioCallSid = Assign(@, u.twilioCallSid),
     !.connectedAt = Assign(@, u.connectedAt),
     !.endedAt = Assign(@, u.endedAt),
     !.durationSeconds =
        IF u.endedAt # Null
        THEN Some(FloorSeconds(Get(u.endedAt) - t)) ELSE @,
     !.talkTimeSeconds =
        IF u.endedAt # Null /\ u.connectedAt # Null
        THEN Some(FloorSeconds(Get(u.endedAt) - Get(u.connectedAt))) ELSE @]

\* updateCallStatus: one update outside any transaction; it throws when no
\* row has the id and when the data is not of the column's type
UpdateCallStatusSteps(db, sessionId, u, t) ==
  IF u.status = Some(FunctionValue) THEN Thrown("validation", db)
  ELSE IF sessionId \notin DOMAIN db.callSession THEN Thrown("not_found", db)
  ELSE Returned([db EXCEPT !.callSession[sessionId] = UpdatedSession(@, u, t)])

NoUpdate ==
  [status |-> Null, twilioCallSid |-> Null, connectedAt |-> Null,
   endedAt |-> Null]

\* the update requests the router's updateCallStatus procedure is given
UpdateInputs(t) ==
  {[NoUpdate EXCEPT !.status = Some("connecting"), !.twilioCallSid = Some(sid)]
     : sid \in CallSids}
  \cup {[NoUpdate EXCEPT !.status = Some(st)] : st \in {"ringing", "completed"}}
  \cup {[NoUpdate EXCEPT !.status = Some("connected"), !.connectedAt = Some(t)],
        [NoUpdate EXCEPT !.status = Some("completed"), !.endedAt = Some(t)],
        [NoUpdate EXCEPT !.status = Some("completed"), !.connectedAt = Some(0),
                         !.endedAt = Some(t)]}

(* --------------------------- recordCallOutcome ------------------------ *)
\* a handler that lets any agent record
AuthorizedAlways(session, agentId) == TRUE

\* if (callSession.agentId !== agentId) throw ...
Authorized(session, agentId) == session.agentId = agentId

\* the data of tx.callOutcome.create
NewCallOutcome(sessionId, agentId, outcome) ==
  [callSessionId |-> sessionId,
   outcomeType |-> outcome.outcomeType,
   nextCallDelayHours |->
     OrElse(outcome.nextCallDelayHours,
            getDefaultDelayHours(outcome.outcomeType)),
   scoreAdjustment |->
     OrElse(outcome.scoreAdjustment, getScoreAdjustment(outcome.outcomeType)),
   recordedByAgentId |-> agentId]

\* an update branch that forgets to count the attempt
ScoreUpdateUncounted(row, adjustment, outcomeType, nextCallAfter, t) ==
  [row EXCEPT !.currentScore = @ + adjustment,
              !.lastOutcome = outcomeType,
              !.lastCallAt = t,
              !.nextCallAfter = nextCallAfter]

\* an update branch that stores the adjustment instead of adding it
ScoreUpdateOverwrites(row, adjustment, outcomeType, nextCallAfter, t) ==
  [row EXCEPT !.currentScore = adjustment,
              !.lastOutcome = outcomeType,
              !.lastCallAt = t,
              !.totalAttempts = @ + 1,
              !.nextCallAfter = nextCallAfter]

\* the update branch of tx.userCallScore.upsert
ScoreUpdate(row, adjustment, outcomeType, nextCallAfter, t) ==
  [row EXCEPT !.currentScore = @ + adjustment,
              !.lastOutcome = outcomeType,
              !.lastCallAt = t,
              !.totalAttempts = @ + 1,
              !.nextCallAfter = nextCallAfter]

\* the create branch of tx.userCallScore.upsert
ScoreCreate(adjustment, outcomeType, nextCallAfter, t) ==
  [currentScore |-> Max(0, adjustment),
   lastOutcome |-> outcomeType,
   lastCallAt |-> t,
   totalAttempts |-> 1,
   nextCallAfter |-> nextCallAfter]

\* updateUserScoreAfterCall: an upsert keyed by the unique userId
updateUserScoreAfterCall(scores, userId, outcomeType, scoreAdjustment, t) ==
  LET adjustment == OrElse(scoreAdjustment, getScoreAdjustment(outcomeType))
      nextCallAfter == calculateNextCallTime(outcomeType, t)
  IN  IF userId \in DOMAIN scores
      THEN [scores EXCEPT ![userId] =
              ScoreUpdate(@, adjustment, outcomeType, nextCallAfter, t)]
      ELSE [u \in DOMAIN scores \cup {userId} |->
              IF u = userId
              THEN ScoreCreate(adjustment, outcomeType, nextCallAfter, t)
              ELSE scores[u]]

\* a callback scheduled for the time its call was started
NewCallbackAtCallStart(session, sessionId, agentId, outcome) ==
  [userId |-> session.userId,
   scheduledFor |-> session.startedAt,
   preferredAgentId |-> Some(agentId),
   originalCallSessionId |-> sessionId,
   status |-> "pending",
   completedCallSessionId |-> Null]

\* the data of tx.callback.create
NewCallback(session, sessionId, agentId, outcome) ==
  [userId |-> session.userId,
   scheduledFor |-> Get(outcome.callbackDateTime),
   preferredAgentId |-> Some(agentId),
   originalCallSessionId |-> sessionId,
   status |-> "pending",
   completedCallSessionId |-> Null]

\* a condition that schedules a callback for any outcome that carries a date
WantsCallbackForAnyType(outcome) == outcome.callbackDateTime # Null

\* if (outcomeType === 'callback_requested' && outcome.callbackDateTime)
WantsCallback(outcome) ==
  outcome.outcomeType = "callback_requested" /\ outcome.callbackDateTime # Null

\* a release that leaves the agent's talk time total as it was
ReleaseAgentWithoutTalkTime(agents, agentId, sessionId, session, t) ==
  [a \in DOMAIN agents |->
     IF a = agentId /\ agents[a].currentCallSessionId = Some(sessionId)
     THEN [agents[a] EXCEPT
             !.status = "available",
             !.currentCallSessionId = Null,
             !.callsCompletedToday = @ + 1]
     ELSE agents[a]]

\* a release of the agent whatever call the agent is on
ReleaseAgentUnguarded(agents, agentId, sessionId, session, t) ==
  [a \in DOMAIN agents |->
     IF a = agentId
     THEN [agents[a] EXCEPT
             !.status = "available",
             !.currentCallSessionId = Null,
             !.callsCompletedToday = @ + 1,
             !.totalTalkTimeSeconds = @ + OrElse(session.talkTimeSeconds, 0)]
     ELSE agents[a]]

\* a release that leaves currentCallSessionId as it was
ReleaseAgentKeepingSession(agents, agentId, sessionId, session, t) ==
  [a \in DOMAIN agents |->
     IF a = agentId /\ agents[a].currentCallSessionId = Some(sessionId)
     THEN [agents[a] EXCEPT
             !.status = "available",
             !.callsCompletedToday = @ + 1,
             !.totalTalkTimeSeconds = @ + OrElse(session.talkTimeSeconds, 0)]
     ELSE agents[a]]

\* tx.agentSession.updateMany where agentId, currentCallSessionId = sessionId
ReleaseAgent(agents, agentId, sessionId, session, t) ==
  [a \in DOMAIN agents |->
     IF a = agentId /\ agents[a].currentCallSessionId = Some(sessionId)
     THEN [agents[a] EXCEPT
             !.status = "available",
             !.currentCallSessionId = Null,
             !.callsCompletedToday = @ + 1,
             !.totalTalkTimeSeconds = @ + OrElse(session.talkTimeSeconds, 0)]
     ELSE agents[a]]

\* a recording that leaves the queue entry as it found it
QueueEntryLeft(queue, queueId) == queue

\* tx.callQueue.update where id = callQueueId, data status = completed
CompleteQueueEntry(queue, queueId) ==
  [queue EXCEPT ![queueId].status = "completed"]

FailPointsRecord ==
  {"none", "callOutcome.create", "userCallScore.upsert", "callback.create",
   "agentSession.updateMany", "callQueue.update"}

\* the transaction body of recordCallOutcome
RecordCallOutcomeSteps(db, sessionId, agentId, outcome, fail, t) ==
  IF sessionId \notin DOMAIN db.callSession THEN Thrown("not_found", db)
  ELSE
  LET session == db.callSession[sessionId]
      ended == session.status \in TerminalStatuses
      d1 == [db EXCEPT !.callOutcome =
               Append(@, NewCallOutcome(sessionId, agentId, outcome))]
      d2 == [d1 EXCEPT !.userCallScore =
               updateUserScoreAfterCall(@, session.userId, outcome.outcomeType,
                                        outcome.scoreAdjustment, t)]
      d3 == IF WantsCallback(outcome)
            THEN [d2 EXCEPT !.callback =
                    Append(@, NewCallback(session, sessionId, agentId, outcome))]
            ELSE d2
      d4 == IF ended
            THEN [d3 EXCEPT !.agentSession =
                    ReleaseAgent(@, agentId, sessionId, session, t)]
            ELSE d3
      d5 == IF session.callQueueId # Null
            THEN [d4 EXCEPT !.callQueue =
                    CompleteQueueEntry(@, Get(session.callQueueId))]
            ELSE d4
  IN  IF ~Authorized(session, agentId) THEN Thrown("unauthorized", db)
      ELSE IF fail = "callOutcome.create" THEN Thrown(fail, db)
      ELSE IF fail = "userCallScore.upsert" THEN Thrown(fail, d1)
      ELSE IF WantsCallback(outcome) /\ fail = "callback.create"
        THEN Thrown(fail, d2)
      ELSE IF ended /\ fail = "agentSession.updateMany" THEN Thrown(fail, d3)
      ELSE IF session.callQueueId # Null /\ fail = "callQueue.update"
        THEN Thrown(fail, d4)
      ELSE Returned(d5)

\* the overrides the recording agent may supply
ScoreAdjustmentInputs == {Null, Some(0), Some(-30)}
DelayInputs == {Null, Some(0), Some(12)}
CallbackInputs(t) == {Null, Some(t + HourMs)}

NoOverride(outcomeType) ==
  [outcomeType |-> outcomeType, nextCallDelayHours |-> Null,
   scoreAdjustment |-> Null, callbackDateTime |-> Null]

\* every outcome type with the defaults; a callback request with its date;
\* one outcome type with each override
OutcomeInputs(t) ==
  {NoOverride(ty) : ty \in OutcomeTypes}
  \cup {[NoOverride("callback_requested") EXCEPT !.callbackDateTime = d]
          : d \in CallbackInputs(t) \ {Null}}
  \cup {[NoOverride("no_answer") EXCEPT !.scoreAdjustment = a]
          : a \in ScoreAdjustmentInputs \ {Null}}
  \cup {[NoOverride("no_answer") EXCEPT !.nextCallDelayHours = h]
          : h \in DelayInputs \ {Null}}

(* -------------------------- handleTwilioWebhook ----------------------- *)
statusMap ==
  [ringing |-> "ringing", completed |-> "completed", busy |-> "no_answer",
   failed |-> "failed"] @@
  ("in-progress" :> "connected") @@ ("no-answer" :> "no_answer") @@
  ("canceled" :> "failed")

EndingCallStatuses == {"completed", "busy", "failed", "no-answer", "canceled"}

\* the CallStatus values webhooks carry: the table's, one the table does
\* not list, and one that names a property every object inherits
CallStatuses == DOMAIN statusMap \cup {"queued", "constructor"}

\* statusMap[CallStatus] || 'failed'
MappedStatus(CallStatus) ==
  IF CallStatus \in DOMAIN statusMap THEN statusMap[CallStatus]
  ELSE IF CallStatus = "constructor" THEN FunctionValue
  ELSE "failed"

\* the CallUpdateOptions built from the event and the session as read
WebhookUpdate(session, CallStatus, t) ==
  [status |-> Some(MappedStatus(CallStatus)),
   twilioCallSid |-> Null,
   connectedAt |->
     IF CallStatus = "in-progress" /\ session.connectedAt = Null
     THEN Some(t) ELSE Null,
   endedAt |-> IF CallStatus \in EndingCallStatuses THEN Some(t) ELSE Null]

\* a lookup that takes any session, whatever its sid
SessionsIgnoringSid(sessions, CallSid) == DOMAIN sessions

\* callSession.findFirst where twilioCallSid = CallSid: any matching row
SessionsWithSid(sessions, CallSid) ==
  {i \in DOMAIN sessions : sessions[i].twilioCallSid = Some(CallSid)}

\* handleTwilioWebhook for the session findFirst returned: the update is
\* built at tFind from the session as read, and written at tApply
handleTwilioWebhookSteps(db, sessionId, CallStatus, tFind, tApply) ==
  UpdateCallStatusSteps(
    db, sessionId, WebhookUpdate(db.callSession[sessionId], CallStatus, tFind),
    tApply)

(* ------------------------------- actions ------------------------------ *)
\* the store after a handler
Store(db) ==
  /\ callSession' = db.callSession
  /\ agentSession' = db.agentSession
  /\ callQueue' = db.callQueue
  /\ callOutcome' = db.callOutcome
  /\ userCallScore' = db.userCallScore
  /\ callback' = db.callback

\* what the last caller was answered: "none" or the error thrown
Response(op, error) == [op |-> op, error |-> error]

Init ==
  /\ now = 0
  /\ callSession = <<>>
  /\ agentSession \in
       [Agents -> [status : {"available"},
                   currentCallSessionId : {Null},
                   callsCompletedToday : {0},
                   totalTalkTimeSeconds : {0}]]
  /\ callQueue = [q \in QueueIds |-> [userId |-> 1, status |-> "pending"]]
  /\ callOutcome = <<>>
  /\ userCallScore = <<>>
  /\ callback = <<>>
  /\ inflight = <<>>
  /\ response = Response("none", "none")

\* time passes between two requests, or between two awaits of one
Tick ==
  /\ now + TickMs <= MaxTicks * TickMs
  /\ now' = now + TickMs
  /\ UNCHANGED <<callSession, agentSession, callQueue, callOutcome,
                 userCallScore, callback, inflight, response>>

InitiateCall(userId, agentId, queueId, fail) ==
  /\ LET res == InitiateCallSteps(DB, userId, agentId, queueId, fail, now)
     IN  /\ Store(Transaction(DB, res))
         /\ response' = Response("initiateCall", res.error)
  /\ UNCHANGED <<now, inflight>>

UpdateCallStatus(sessionId, u) ==
  /\ LET res == UpdateCallStatusSteps(DB, sessionId, u, now)
     IN  /\ Store(res.db)
         /\ response' = Response("updateCallStatus", res.error)
  /\ UNCHANGED <<now, inflight>>

RecordCallOutcome(sessionId, agentId, outcome, fail) ==
  /\ LET res == RecordCallOutcomeSteps(DB, sessionId, agentId, outcome, fail, now)
     IN  /\ Store(Transaction(DB, res))
         /\ response' = Response("recordCallOutcome", res.error)
  /\ UNCHANGED <<now, inflight>>

\* handleTwilioWebhook, no session has the sid: a warning, nothing else
WebhookUnknown(CallSid, CallStatus) ==
  /\ SessionsWithSid(callSession, CallSid) = {}
  /\ response' = Response("handleTwilioWebhook", "none")
  /\ UNCHANGED <<now, callSession, agentSession, callQueue, callOutcome,
                 userCallScore, callback, inflight>>

\* handleTwilioWebhook up to its await of updateCallStatus: the session is
\* read and the update is built from what was read
WebhookFind(CallSid, CallStatus) ==
  /\ \E id \in SessionsWithSid(callSession, CallSid) :
       inflight' =
         Append(inflight,
                [callSessionId |-> id, CallStatus |-> CallStatus,
                 updateData |-> WebhookUpdate(callSession[id], CallStatus, now)])
  /\ UNCHANGED <<now, callSession, agentSession, callQueue, callOutcome,
                 userCallScore, callback, response>>

RemoveAt(seq, i) == SubSeq(seq, 1, i - 1) \o SubSeq(seq, i + 1, Len(seq))

\* handleTwilioWebhook from its updateCallStatus to its end
WebhookApply(i) ==
  /\ i \in DOMAIN inflight
  /\ LET w == inflight[i]
         res == UpdateCallStatusSteps(DB, w.callSessionId, w.updateData, now)
     IN  /\ Store(res.db)
         /\ response' = Response("handleTwilioWebhook", res.error)
  /\ inflight' = RemoveAt(inflight, i)
  /\ UNCHANGED now

(* ------------------ recordCallOutcome, statement by statement --------- *)
\* Transactions of recordCallOutcome side by side.  The store runs each
\* statement atomically; the row an update has written stays locked until
\* the transaction ends, and rows inserted show when it commits.

\* recordCallOutcome from its start to the await of the score upsert: the
\* session is read and checked, the outcome row is inserted (unseen yet)
RecordBegin(sessionId, agentId, outcome) ==
  /\ IF sessionId \notin DOMAIN callSession
     THEN /\ response' = Response("recordCallOutcome", "not_found")
          /\ UNCHANGED inflight
     ELSE IF ~Authorized(callSession[sessionId], agentId)
     THEN /\ response' = Response("recordCallOutcome", "unauthorized")
          /\ UNCHANGED inflight
     ELSE /\ inflight' =
               Append(inflight,
                      [callSessionId |-> sessionId, agentId |-> agentId,
                       outcome |-> outcome, session |-> callSession[sessionId],
                       pc |-> "upsert"])
          /\ UNCHANGED response
  /\ UNCHANGED <<now, callSession, agentSession, callQueue, callOutcome,
                 userCallScore, callback>>

\* another open transaction has written the user's score row
ScoreRowLocked(i) ==
  \E j \in DOMAIN inflight \ {i} :
    /\ inflight[j].pc = "commit"
    /\ inflight[j].session.userId = inflight[i].session.userId

\* the upsert of updateUserScoreAfterCall, run by the store on the row as
\* it is once the row's lock is free
RecordUpsert(i) ==
  /\ i \in DOMAIN inflight
  /\ inflight[i].pc = "upsert"
  /\ ~ScoreRowLocked(i)
  /\ userCallScore' =
       updateUserScoreAfterCall(userCallScore, inflight[i].session.userId,
                                inflight[i].outcome.outcomeType,
                                inflight[i].outcome.scoreAdjustment, now)
  /\ inflight' = [inflight EXCEPT ![i].pc = "commit"]
  /\ UNCHANGED <<now, callSession, agentSession, callQueue, callOutcome,
                 callback, response>>

\* recordCallOutcome from the upsert to the commit: the callback, the
\* agent's release and the queue entry, then every write becomes visible
RecordCommit(i) ==
  /\ i \in DOMAIN inflight
  /\ inflight[i].pc = "commit"
  /\ LET w == inflight[i]
         d1 == [DB EXCEPT !.callOutcome =
                  Append(@, NewCallOutcome(w.callSessionId, w.agentId, w.outcome))]
         d3 == IF WantsCallback(w.outcome)
               THEN [d1 EXCEPT !.callback =
                       Append(@, NewCallback(w.session, w.callSessionId,
                                             w.agentId, w.outcome))]
               ELSE d1
         d4 == IF w.session.status \in TerminalStatuses
               THEN [d3 EXCEPT !.agentSession =
                       ReleaseAgent(@, w.agentId, w.callSessionId, w.session, now)]
               ELSE d3
         d5 == IF w.session.callQueueId # Null
               THEN [d4 EXCEPT !.callQueue =
                       CompleteQueueEntry(@, Get(w.session.callQueueId))]
               ELSE d4
     IN  Store(d5)
  /\ response' = Response("recordCallOutcome", "none")
  /\ inflight' = RemoveAt(inflight, i)
  /\ UNCHANGED now

(* ------------------------------ Queue Builder ------------------------- *)
\* a score record may be offered as a fresh priority call at time t when
\* its nextCallAfter is absent or not later than t
EligibleForPriorityCall(row, t) ==
  "nextCallAfter" \notin DOMAIN row \/ row.nextCallAfter <= t

\* the users the builder offers as fresh priority calls at time t
priorityCallQueue(scores, t) ==
  {u \in DOMAIN scores : EligibleForPriorityCall(scores[u], t)}

\* a callback may be offered at time t when it is pending and due
EligibleCallback(cb, t) == cb.status = "pending" /\ cb.scheduledFor <= t

\* the work items the builder derives at time t: due callbacks and fresh
\* priority calls, each with a snapshot of the user's score (0 without a
\* score record); at is scheduledFor, or the time the item was made
CallbackItems(scores, callbacks, t) ==
  {[queueType |-> "callback", userId |-> callbacks[c].userId,
    priorityScore |-> IF callbacks[c].userId \in DOMAIN scores
                      THEN scores[callbacks[c].userId].currentScore ELSE 0,
    at |-> callbacks[c].scheduledFor, callbackId |-> Some(c)]
     : c \in {c \in DOMAIN callbacks : EligibleCallback(callbacks[c], t)}}

PriorityCallItems(scores, t) ==
  {[queueType |-> "priority_call", userId |-> u,
    priorityScore |-> scores[u].currentScore, at |-> t, callbackId |-> Null]
     : u \in priorityCallQueue(scores, t)}

\* queueType precedence: due callbacks, then priority calls, then follow-ups
queueTypeRank == [callback |-> 1, priority_call |-> 2, follow_up |-> 3]

\* an order that puts the highest score first
PrecedesHighestScoreFirst(a, b) ==
  \/ queueTypeRank[a.queueType] < queueTypeRank[b.queueType]
  \/ /\ a.queueType = b.queueType
     /\ \/ a.priorityScore > b.priorityScore
        \/ a.priorityScore = b.priorityScore /\ a.at < b.at

\* the ordering key: precedence, ascending priorityScore, ascending at
Precedes(a, b) ==
  \/ queueTypeRank[a.queueType] < queueTypeRank[b.queueType]
  \/ /\ a.queueType = b.queueType
     /\ \/ a.priorityScore < b.priorityScore
        \/ a.priorityScore = b.priorityScore /\ a.at < b.at

\* the items in order: the item no other precedes, then the rest
RECURSIVE orderQueue(_)
orderQueue(items) ==
  IF items = {} THEN <<>>
  ELSE LET first == CHOOSE a \in items : \A b \in items : ~Precedes(b, a)
       IN  <<first>> \o orderQueue(items \ {first})

\* the queue offered at time t
buildQueue(scores, callbacks, t) ==
  orderQueue(CallbackItems(scores, callbacks, t) \cup PriorityCallItems(scores, t))

(* ---------------------------- specifications -------------------------- *)
QueueIdInputs == {Null} \cup {Some(q) : q \in QueueIds \cup UnknownQueueIds}

\* how a call is ended ahead of recording its outcome
EndInputs(t) ==
  {[NoUpdate EXCEPT !.status = Some("failed"), !.endedAt = Some(t)],
   [NoUpdate EXCEPT !.status = Some("completed"), !.connectedAt = Some(0),
                    !.endedAt = Some(t)]}

\* outcome recording: calls are started, ended and their outcomes recorded,
\* every store call of the two transactions being one that may fail
Next ==
  \/ Tick
  \/ /\ Len(callSession) < MaxSessions
     /\ \E userId \in Users, agentId \in Agents, queueId \in QueueIdInputs,
           fail \in FailPointsInitiate :
          InitiateCall(userId, agentId, queueId, fail)
  \/ \E sessionId \in 1..MaxSessions, u \in EndInputs(now) :
       UpdateCallStatus(sessionId, u)
  \/ /\ Len(callOutcome) < MaxOutcomes
     /\ \E sessionId \in 1..MaxSessions, agentId \in Agents,
           outcome \in OutcomeInputs(now), fail \in FailPointsRecord :
          RecordCallOutcome(sessionId, agentId, outcome, fail)

Spec == Init /\ [][Next]_vars

\* several calls side by side: agents start calls from the queue, the calls
\* complete and outcomes are recorded, on one session or on several
CallsEndInputs(t) ==
  {[NoUpdate EXCEPT !.status = Some("completed"), !.connectedAt = Some(0),
                    !.endedAt = Some(t)]}

CallsOutcomeInputs(t) ==
  {NoOverride("no_answer"),
   [NoOverride("callback_requested") EXCEPT !.callbackDateTime = Some(t + HourMs)]}

NextCalls ==
  \/ /\ Len(callSession) < MaxCalls
     /\ \E userId \in Users, agentId \in Agents, queueId \in QueueIdInputs,
           fail \in FailPointsInitiate :
          InitiateCall(userId, agentId, queueId, fail)
  \/ \E sessionId \in 1..MaxCalls, u \in CallsEndInputs(now) :
       UpdateCallStatus(sessionId, u)
  \/ /\ Len(callOutcome) < MaxRecorded
     /\ \E sessionId \in 1..MaxCalls, agentId \in Agents,
           outcome \in CallsOutcomeInputs(now), fail \in FailPointsRecord :
          RecordCallOutcome(sessionId, agentId, outcome, fail)

SpecCalls == Init /\ [][NextCalls]_vars

\* the same, every request that can be served being served in the end
SpecCallsFair == SpecCalls /\ WF_vars(NextCalls)

\* the life of a call session: status updates from the agent's client and
\* from telephony webhooks, which suspend between reading and writing
NextSession ==
  \/ Tick
  \/ /\ Len(callSession) < MaxSessions
     /\ \E userId \in Users, agentId \in Agents, queueId \in QueueIdInputs,
           fail \in FailPointsInitiate :
          InitiateCall(userId, agentId, queueId, fail)
  \/ \E sessionId \in 1..MaxSessions, u \in UpdateInputs(now) :
       UpdateCallStatus(sessionId, u)
  \/ \E CallSid \in CallSids, CallStatus \in CallStatuses :
       WebhookUnknown(CallSid, CallStatus)
  \/ /\ Len(inflight) < MaxInflight
     /\ \E CallSid \in CallSids, CallStatus \in CallStatuses :
          WebhookFind(CallSid, CallStatus)
  \/ \E i \in 1..MaxInflight : WebhookApply(i)

SpecSession == Init /\ [][NextSession]_vars

\* the client reports the dial: the session is given its Twilio call sid
DialInputs ==
  {[NoUpdate EXCEPT !.status = Some("connecting"), !.twilioCallSid = Some(sid)]
     : sid \in CallSids}

\* webhook deliveries side by side: telephony events for one call arrive
\* while earlier ones are still between their read and their write
NextWebhooks ==
  \/ Tick
  \/ /\ Len(callSession) < MaxSessions
     /\ \E userId \in Users, agentId \in Agents, queueId \in QueueIdInputs,
           fail \in FailPointsInitiate :
          InitiateCall(userId, agentId, queueId, fail)
  \/ \E sessionId \in 1..MaxSessions, u \in DialInputs :
       UpdateCallStatus(sessionId, u)
  \/ \E CallSid \in CallSids, CallStatus \in CallStatuses :
       WebhookUnknown(CallSid, CallStatus)
  \/ /\ Len(inflight) < MaxRacing
     /\ \E CallSid \in CallSids, CallStatus \in CallStatuses :
          WebhookFind(CallSid, CallStatus)
  \/ \E i \in 1..MaxRacing : WebhookApply(i)

SpecWebhooks == Init /\ [][NextWebhooks]_vars

\* agents in every status a login leaves them in: calls are started by
\* agents who are available, on a break, offline or already on a call
AgentStatusesAtStart == {"available", "break", "offline"}

InitAgents ==
  /\ now = 0
  /\ callSession = <<>>
  /\ agentSession \in
       [Agents -> [status : AgentStatusesAtStart,
                   currentCallSessionId : {Null},
                   callsCompletedToday : {0},
                   totalTalkTimeSeconds : {0}]]
  /\ callQueue = [q \in QueueIds |-> [userId |-> 1, status |-> "pending"]]
  /\ callOutcome = <<>>
  /\ userCallScore = <<>>
  /\ callback = <<>>
  /\ inflight = <<>>
  /\ response = Response("none", "none")

NextAgents ==
  \/ /\ Len(callSession) < MaxCalls
     /\ \E userId \in Users, agentId \in Agents, queueId \in QueueIdInputs,
           fail \in FailPointsInitiate :
          InitiateCall(userId, agentId, queueId, fail)
  \/ \E sessionId \in 1..MaxCalls, u \in CallsEndInputs(now) :
       UpdateCallStatus(sessionId, u)
  \/ /\ Len(callOutcome) < MaxOutcomes
     /\ \E sessionId \in 1..MaxCalls, agentId \in Agents :
          RecordCallOutcome(sessionId, agentId, NoOverride("no_answer"), "none")

SpecAgents == InitAgents /\ [][NextAgents]_vars

\* a score row left by earlier calls
ScoredRow ==
  [currentScore |-> 10, lastOutcome |-> "no_answer", lastCallAt |-> 0,
   totalAttempts |-> 1, nextCallAfter |-> 0]

\* every user has been called before
InitScored ==
  /\ now = 0
  /\ callSession = <<>>
  /\ agentSession \in
       [Agents -> [status : {"available"},
                   currentCallSessionId : {Null},
                   callsCompletedToday : {0},
                   totalTalkTimeSeconds : {0}]]
  /\ callQueue = [q \in QueueIds |-> [userId |-> 1, status |-> "pending"]]
  /\ callOutcome = <<>>
  /\ userCallScore = [u \in Users |-> ScoredRow]
  /\ callback = <<>>
  /\ inflight = <<>>
  /\ response = Response("none", "none")

\* outcome recordings that overlap: a transaction is begun while another
\* is between its statements
NextConcurrent ==
  \/ /\ Len(callSession) < MaxCalls
     /\ \E userId \in Users, agentId \in Agents, queueId \in QueueIdInputs :
          InitiateCall(userId, agentId, queueId, "none")
  \/ \E sessionId \in 1..MaxCalls, u \in CallsEndInputs(now) :
       UpdateCallStatus(sessionId, u)
  \/ /\ Len(callOutcome) + Len(inflight) < MaxRecorded
     /\ \E sessionId \in 1..MaxCalls, agentId \in Agents,
           outcome \in CallsOutcomeInputs(now) :
          RecordBegin(sessionId, agentId, outcome)
  \/ \E i \in 1..MaxRecorded : RecordUpsert(i)
  \/ \E i \in 1..MaxRecorded : RecordCommit(i)

SpecConcurrent == InitScored /\ [][NextConcurrent]_vars

\* the events of a call that is answered and then ends
LifecycleCallStatuses == {"ringing", "in-progress", "completed"}

\* a call from its start to its end: the agent starts and dials it, telephony
\* reports its progress by webhook, and the agent records its outcome at any
\* point of it
NextLifecycle ==
  \/ Tick
  \/ /\ Len(callSession) < MaxSessions
     /\ \E userId \in Users, agentId \in Agents, queueId \in QueueIdInputs :
          InitiateCall(userId, agentId, queueId, "none")
  \/ \E sessionId \in 1..MaxSessions, u \in DialInputs :
       UpdateCallStatus(sessionId, u)
  \/ \E CallSid \in CallSids, CallStatus \in LifecycleCallStatuses :
       WebhookUnknown(CallSid, CallStatus)
  \/ /\ Len(inflight) < MaxInflight
     /\ \E CallSid \in CallSids, CallStatus \in LifecycleCallStatuses :
          WebhookFind(CallSid, CallStatus)
  \/ \E i \in 1..MaxInflight : WebhookApply(i)
  \/ /\ Len(callOutcome) < MaxOutcomes
     /\ \E sessionId \in 1..MaxSessions, agentId \in Agents :
          RecordCallOutcome(sessionId, agentId, NoOverride("no_answer"), "none")

SpecLifecycle == Init /\ [][NextLifecycle]_vars

\* one call, ended by the agent's client after some talk time, and its
\* outcome recorded more than once: a note and then the disposition, or the
\* same form submitted twice
NextResubmit ==
  \/ Tick
  \/ /\ Len(callSession) < MaxSessions
     /\ \E userId \in Users, agentId \in Agents, queueId \in QueueIdInputs :
          InitiateCall(userId, agentId, queueId, "none")
  \/ \E sessionId \in 1..MaxSessions, u \in CallsEndInputs(now) :
       UpdateCallStatus(sessionId, u)
  \/ /\ Len(callOutcome) < MaxRecorded
     /\ \E sessionId \in 1..MaxSessions, agentId \in Agents,
           outcome \in CallsOutcomeInputs(now) :
          RecordCallOutcome(sessionId, agentId, outcome, "none")

SpecResubmit == Init /\ [][NextResubmit]_vars

(* ================================ claims =============================== *)
Tables ==
  <<callSession, agentSession, callQueue, callOutcome, userCallScore, callback>>

Last(seq) == seq[Len(seq)]

(* C1: a recordCallOutcome that fails at any step leaves every table as it
   was: no outcome row, no score change, no callback, the agent session and
   the queue entry untouched. *)
RecordOutcomeAllOrNothing ==
  [][(response'.op = "recordCallOutcome" /\ response'.error # "none")
       => UNCHANGED Tables]_vars

\* the callback creation of a callback_requested outcome was refused, after
\* the outcome row and the score were written inside the transaction
RecordFailedAtCallback ==
  /\ response = Response("recordCallOutcome", "callback.create")
  /\ callSession # <<>>

(* C2: recordCallOutcome by an agent who is not the session's agent ends
   with the authorization error, whatever the outcome and the store's
   health, and has written nothing by then. *)
WrongAgentRejected ==
  \A s \in DOMAIN callSession, a \in Agents, o \in OutcomeInputs(now),
     f \in FailPointsRecord :
    callSession[s].agentId # a =>
      LET res == RecordCallOutcomeSteps(DB, s, a, o, f, now)
      IN  res.error = "unauthorized" /\ res.db = DB

\* another agent tried to record an outcome on an existing session
WrongAgentTried ==
  /\ response = Response("recordCallOutcome", "unauthorized")
  /\ callOutcome = <<>>

(* C3: no two agents hold open call sessions started from the same queue
   entry while that entry is assigned. *)
AssignmentExclusive ==
  \A i, j \in DOMAIN callSession :
    ( /\ callSession[i].agentId # callSession[j].agentId
      /\ callSession[i].callQueueId = callSession[j].callQueueId
      /\ callSession[i].status \in OpenStatuses
      /\ callSession[j].status \in OpenStatuses )
    => callQueue[Get(callSession[i].callQueueId)].status # "assigned"

(* C4: currentScore is never negative. *)
ScoreNeverNegative ==
  \A u \in DOMAIN userCallScore : userCallScore[u].currentScore >= 0

(* C5: a user's totalAttempts is the number of outcome rows recorded on
   that user's sessions (no score row while there is none). *)
OutcomesOf(u) ==
  {i \in DOMAIN callOutcome :
     callSession[callOutcome[i].callSessionId].userId = u}

AttemptsCountOutcomes ==
  \A u \in Users :
    IF u \in DOMAIN userCallScore
    THEN userCallScore[u].totalAttempts = Cardinality(OutcomesOf(u))
    ELSE OutcomesOf(u) = {}

\* a second outcome was recorded for a user
SecondOutcomeRecorded ==
  \E u \in DOMAIN userCallScore : userCallScore[u].totalAttempts = 2

\* the table of section 4.1 of the specification: score delta, delay in hours
CanonicalAdjustment ==
  [contacted |-> -10, no_answer |-> 5, busy |-> 2, left_voicemail |-> 10,
   wrong_number |-> 50, not_interested |-> 100, callback_requested |-> -20,
   failed |-> 0, unrecognized |-> 0]

CanonicalDelay ==
  [contacted |-> 24, no_answer |-> 4, busy |-> 2, left_voicemail |-> 8,
   wrong_number |-> 48, not_interested |-> 48, callback_requested |-> 0,
   failed |-> 1, unrecognized |-> 4]

\* the step is this session's agent recording outcome o, and it succeeds
Records(s, o) ==
  /\ response' = Response("recordCallOutcome", "none")
  /\ s \in DOMAIN callSession
  /\ RecordCallOutcome(s, callSession[s].agentId, o, "none")

(* C6: recording an outcome type with no overrides for a user with no score
   row creates the row with currentScore = max(0, delta), totalAttempts = 1
   and nextCallAfter = now + delay hours, delta and delay being the
   canonical table's. *)
FreshUserGetsCanonicalDefaults ==
  [][\A s \in 1..MaxSessions, ty \in OutcomeTypes :
       (Records(s, NoOverride(ty)) /\ callSession[s].userId \notin DOMAIN userCallScore)
       => LET row == userCallScore'[callSession[s].userId]
          IN  /\ row.currentScore = Max(0, CanonicalAdjustment[ty])
              /\ row.totalAttempts = 1
              /\ row.nextCallAfter = now + CanonicalDelay[ty] * HourMs]_vars

(* C7: an explicit scoreAdjustment, 0 included, is the adjustment stored on
   the outcome row and the amount applied to the score (a new row being
   seeded at max(0, adjustment)). *)
ExplicitAdjustmentWins ==
  [][\A s \in 1..MaxSessions, o \in OutcomeInputs(now) :
       (Records(s, o) /\ o.scoreAdjustment # Null)
       => LET adj == Get(o.scoreAdjustment)
              u == callSession[s].userId
          IN  /\ Last(callOutcome').scoreAdjustment = adj
              /\ userCallScore'[u].currentScore =
                   IF u \in DOMAIN userCallScore
                   THEN userCallScore[u].currentScore + adj
                   ELSE Max(0, adj)]_vars

(* C8: an explicit nextCallDelayHours, 0 included, is the delay stored on
   the outcome row and the one that sets nextCallAfter = now + delay. *)
ExplicitDelayWins ==
  [][\A s \in 1..MaxSessions, o \in OutcomeInputs(now) :
       (Records(s, o) /\ o.nextCallDelayHours # Null)
       => LET h == Get(o.nextCallDelayHours)
          IN  /\ Last(callOutcome').nextCallDelayHours = h
              /\ userCallScore'[callSession[s].userId].nextCallAfter =
                   now + h * HourMs]_vars

(* C9: a callback_requested outcome without a delay override sets
   nextCallAfter to now and stores nextCallDelayHours = 0. *)
CallbackRequestedHasNoDelay ==
  [][\A s \in 1..MaxSessions, o \in OutcomeInputs(now) :
       ( /\ Records(s, o)
         /\ o.outcomeType = "callback_requested"
         /\ o.nextCallDelayHours = Null )
       => /\ Last(callOutcome').nextCallDelayHours = 0
          /\ userCallScore'[callSession[s].userId].nextCallAfter = now]_vars

(* C10: a session in a terminal status keeps its status, endedAt,
   connectedAt, durationSeconds and talkTimeSeconds in every later step. *)
Disposition(session) ==
  <<session.status, session.endedAt, session.connectedAt,
    session.durationSeconds, session.talkTimeSeconds>>

TerminalSessionFrozen ==
  [][\A s \in DOMAIN callSession :
       callSession[s].status \in TerminalStatuses
       => Disposition(callSession'[s]) = Disposition(callSession[s])]_vars

(* C11: delivering the same terminal webhook event a second time leaves the
   session as the first delivery left it, endedAt included, and neither
   delivery touches a score row. *)
TerminalReplayIdempotent ==
  \A s \in DOMAIN callSession, CallStatus \in EndingCallStatuses :
    callSession[s].twilioCallSid # Null =>
      LET first == handleTwilioWebhookSteps(DB, s, CallStatus, now, now).db
          later == now + TickMs
          second ==
            handleTwilioWebhookSteps(first, s, CallStatus, later, later).db
      IN  /\ second.callSession[s] = first.callSession[s]
          /\ first.userCallScore = userCallScore
          /\ second.userCallScore = userCallScore

(* C12: a session in a terminal status has endedAt set. *)
TerminalHasEndedAt ==
  \A s \in DOMAIN callSession :
    callSession[s].status \in TerminalStatuses => callSession[s].endedAt # Null

\* the webhook status table of the specification; any other value is failed
CanonicalStatusTable ==
  [ringing |-> "ringing", completed |-> "completed", busy |-> "no_answer",
   failed |-> "failed"] @@
  ("in-progress" :> "connected") @@ ("no-answer" :> "no_answer") @@
  ("canceled" :> "failed")

CanonicalStatus(CallStatus) ==
  IF CallStatus \in DOMAIN CanonicalStatusTable
  THEN CanonicalStatusTable[CallStatus] ELSE "failed"

(* C13: once a webhook for a known CallSid is processed, the session's
   status is the table's value for its CallStatus, failed for a value the
   table does not list. *)
WebhookStatusByTable ==
  [][\A i \in DOMAIN inflight :
       WebhookApply(i)
       => callSession'[inflight[i].callSessionId].status =
            CanonicalStatus(inflight[i].CallStatus)]_vars

(* C14: a terminal webhook event on a session whose connectedAt is set
   leaves talkTimeSeconds = endedAt - connectedAt in whole seconds. *)
TalkTimeFromConnect ==
  [][\A i \in DOMAIN inflight :
       LET id == inflight[i].callSessionId
       IN  ( /\ WebhookApply(i)
             /\ inflight[i].CallStatus \in EndingCallStatuses
             /\ callSession[id].connectedAt # Null )
           => callSession'[id].talkTimeSeconds =
                Some(FloorSeconds(Get(callSession'[id].endedAt)
                                  - Get(callSession[id].connectedAt)))]_vars

(* C15: a session in a terminal status whose connectedAt was never set has
   talkTimeSeconds absent or zero, whatever its durationSeconds. *)
NeverConnectedNoTalkTime ==
  \A s \in DOMAIN callSession :
    ( /\ callSession[s].status \in TerminalStatuses
      /\ callSession[s].connectedAt = Null )
    => callSession[s].talkTimeSeconds \in {Null, Some(0)}

\* a webhook ended a call that never connected, and a duration was stored
EndedUnconnected ==
  \E s \in DOMAIN callSession :
    /\ callSession[s].status = "no_answer"
    /\ callSession[s].connectedAt = Null
    /\ callSession[s].endedAt = Some(TickMs)
    /\ callSession[s].durationSeconds # Null
    /\ response = Response("handleTwilioWebhook", "none")

(* C16: a terminal session's durationSeconds is endedAt - startedAt in
   whole seconds, hence not negative. *)
DurationFromStart ==
  \A s \in DOMAIN callSession :
    ( /\ callSession[s].status \in TerminalStatuses
      /\ callSession[s].endedAt # Null )
    => /\ callSession[s].durationSeconds =
            Some(FloorSeconds(Get(callSession[s].endedAt)
                              - callSession[s].startedAt))
       /\ Get(callSession[s].durationSeconds) >= 0

(* C17: once connectedAt is set, no webhook event changes it. *)
ConnectedAtStampedOnce ==
  [][\A i \in DOMAIN inflight :
       LET id == inflight[i].callSessionId
       IN  (WebhookApply(i) /\ callSession[id].connectedAt # Null)
           => callSession'[id].connectedAt = callSession[id].connectedAt]_vars

(* C18: a webhook whose CallSid matches no session ends without an error
   and changes no table; only a webhook whose CallSid matches a session
   goes on to an update. *)
UnknownSidDropped ==
  [][/\ \A CallSid \in CallSids, CallStatus \in CallStatuses :
          WebhookUnknown(CallSid, CallStatus)
          => UNCHANGED Tables /\ response'.error = "none"
     /\ Len(inflight') > Len(inflight)
          => callSession[Last(inflight').callSessionId].twilioCallSid # Null]_vars

\* a webhook was answered while no session carried any call sid
UnknownSidAnswered ==
  /\ response = Response("handleTwilioWebhook", "none")
  /\ callSession # <<>>
  /\ \A s \in DOMAIN callSession : callSession[s].twilioCallSid = Null

(* C19: an initiateCall that fails at any step leaves every table as it
   was: no session row, the agent session and the queue entry untouched. *)
InitiateAllOrNothing ==
  [][(response'.op = "initiateCall" /\ response'.error # "none")
       => UNCHANGED Tables]_vars

\* the queue entry's update was refused, after the session was created and
\* the agent put on the call inside the transaction
InitiateFailedAtQueue ==
  /\ response = Response("initiateCall", "callQueue.update")
  /\ callSession = <<>>

(* C20: initiateCall puts an agent on the new call only if the agent was
   available or on a break; an agent on a call or offline, and every other
   agent, keeps the agent session row unchanged. *)
OnlyIdleAgentFlipped ==
  [][\A userId \in Users, agentId \in Agents, queueId \in QueueIdInputs,
        fail \in FailPointsInitiate :
       InitiateCall(userId, agentId, queueId, fail)
       => \A a \in Agents :
            IF /\ a = agentId
               /\ agentSession[a].status \in {"available", "break"}
               /\ response'.error = "none"
            THEN /\ agentSession'[a].status = "on_call"
                 /\ agentSession'[a].currentCallSessionId =
                      Some(Len(callSession'))
            ELSE agentSession'[a] = agentSession[a]]_vars

\* an agent on a call started a second call and is still on the first
BusyAgentCalledAgain ==
  \E a \in Agents :
    /\ agentSession[a].status = "on_call"
    /\ agentSession[a].currentCallSessionId = Some(1)
    /\ Len(callSession) = 2
    /\ callSession[2].agentId = a
    /\ response = Response("initiateCall", "none")

(* C21: a successful recordCallOutcome on a terminal session makes the
   agent session whose currentCallSessionId is that session available,
   clears currentCallSessionId, adds 1 to callsCompletedToday and the
   session's talkTimeSeconds (0 if absent) to totalTalkTimeSeconds; on a
   session that is not terminal it changes no agent session. *)
AgentReleasedIffTerminal ==
  [][\A s \in 1..MaxSessions, o \in OutcomeInputs(now) :
       Records(s, o)
       => \A a \in Agents :
            IF /\ callSession[s].status \in TerminalStatuses
               /\ agentSession[a].currentCallSessionId = Some(s)
            THEN /\ agentSession'[a].status = "available"
                 /\ agentSession'[a].currentCallSessionId = Null
                 /\ agentSession'[a].callsCompletedToday =
                      agentSession[a].callsCompletedToday + 1
                 /\ agentSession'[a].totalTalkTimeSeconds =
                      agentSession[a].totalTalkTimeSeconds
                      + ( IF callSession[s].talkTimeSeconds = Null THEN 0
                          ELSE Get(callSession[s].talkTimeSeconds) )
            ELSE agentSession'[a] = agentSession[a]]_vars

\* an agent was released after a call with a second of talk time
AgentReleasedWithTalkTime ==
  \E a \in Agents :
    /\ agentSession[a].status = "available"
    /\ agentSession[a].callsCompletedToday = 1
    /\ agentSession[a].totalTalkTimeSeconds = 1
    /\ response = Response("recordCallOutcome", "none")

(* C22: recordCallOutcome for a session changes no agent session whose
   currentCallSessionId is not that session: an agent who has since started
   a newer call stays on it, counters included. *)
OtherCallUntouched ==
  \A s \in DOMAIN callSession, a \in Agents, o \in CallsOutcomeInputs(now),
     f \in FailPointsRecord :
    LET res == RecordCallOutcomeSteps(DB, s, a, o, f, now)
    IN  \A b \in Agents :
          agentSession[b].currentCallSessionId # Some(s)
          => Transaction(DB, res).agentSession[b] = agentSession[b]

\* an outcome was recorded on an agent's ended first call while the agent
\* was on a second call
RecordedWhileOnNewerCall ==
  /\ Len(callOutcome) = 2
  /\ callOutcome[2].callSessionId = 1
  /\ callSession[1].status \in TerminalStatuses
  /\ Len(callSession) = 2
  /\ agentSession[callSession[1].agentId].status = "on_call"
  /\ agentSession[callSession[1].agentId].currentCallSessionId = Some(2)
  /\ response = Response("recordCallOutcome", "none")

(* C23: a successful recordCallOutcome on a session started from a queue
   entry leaves that entry completed and every other entry as it was; on a
   session with no queue entry it changes no queue entry. *)
QueueEntryCompleted ==
  [][\A s \in 1..MaxSessions, o \in OutcomeInputs(now) :
       Records(s, o)
       => IF callSession[s].callQueueId # Null
          THEN \A q \in DOMAIN callQueue :
                 IF Some(q) = callSession[s].callQueueId
                 THEN callQueue'[q].status = "completed"
                 ELSE callQueue'[q] = callQueue[q]
          ELSE callQueue' = callQueue]_vars

\* an outcome was recorded on a call started from a queue entry
QueueEntryDone ==
  /\ Len(callOutcome) = 1
  /\ \E q \in DOMAIN callQueue :
       /\ callSession[callOutcome[1].callSessionId].callQueueId = Some(q)
       /\ callQueue[q].status = "completed"
  /\ response = Response("recordCallOutcome", "none")

\* outcomes as the router accepts them, a date on another outcome type and
\* a callback request without a date among them
CallbackProbes(t) ==
  OutcomeInputs(t)
  \cup {[NoOverride("no_answer") EXCEPT !.callbackDateTime = Some(t + HourMs)]}

(* C24: a successful recordCallOutcome adds one Callback row exactly when
   the outcome type is callback_requested and a callbackDateTime is given:
   status pending, scheduledFor the given date, userId the session's user,
   originalCallSessionId the session; otherwise the callbacks are as they
   were. *)
CallbackIffRequestedWithDate ==
  \A s \in DOMAIN callSession, o \in CallbackProbes(now) :
    LET res == RecordCallOutcomeSteps(DB, s, callSession[s].agentId, o,
                                      "none", now)
        after == Transaction(DB, res).callback
    IN  /\ res.error = "none"
        /\ IF o.outcomeType = "callback_requested" /\ o.callbackDateTime # Null
           THEN /\ Len(after) = Len(callback) + 1
                /\ SubSeq(after, 1, Len(callback)) = callback
                /\ Last(after).status = "pending"
                /\ Last(after).scheduledFor = Get(o.callbackDateTime)
                /\ Last(after).userId = callSession[s].userId
                /\ Last(after).originalCallSessionId = s
           ELSE after = callback

\* a callback was scheduled by a callback_requested outcome
CallbackScheduled ==
  /\ Len(callback) = 1
  /\ callback[1].status = "pending"
  /\ callback[1].originalCallSessionId = 1
  /\ Last(callOutcome).outcomeType = "callback_requested"
  /\ response = Response("recordCallOutcome", "none")

(* C25: a pending Callback eventually leaves the pending status (completed
   once the call made for it has ended, or cancelled). *)
PendingCallbackResolved ==
  \A c \in 1..MaxRecorded :
    (c \in DOMAIN callback /\ callback[c].status = "pending")
      ~> (c \in DOMAIN callback /\ callback[c].status # "pending")

\* the sum of the adjustments of the first n outcome rows of user u
RECURSIVE AdjustmentsOf(_, _)
AdjustmentsOf(u, n) ==
  IF n = 0 THEN 0
  ELSE AdjustmentsOf(u, n - 1)
       + ( IF callSession[callOutcome[n].callSessionId].userId = u
           THEN callOutcome[n].scoreAdjustment ELSE 0 )

(* C26: once the overlapping recordCallOutcome transactions of a user with
   a score row have all committed, currentScore is the initial score plus
   the sum of their adjustments and totalAttempts the initial count plus
   their number, whatever the interleaving. *)
NoLostScoreUpdate ==
  inflight = <<>> =>
    \A u \in Users :
      /\ userCallScore[u].currentScore =
           ScoredRow.currentScore + AdjustmentsOf(u, Len(callOutcome))
      /\ userCallScore[u].totalAttempts =
           ScoredRow.totalAttempts + Cardinality(OutcomesOf(u))

\* two transactions of one user are open, one holding the score row it has
\* written, the other waiting to write it
TwoRecordingsOverlap ==
  /\ Len(inflight) = 2
  /\ inflight[1].session.userId = inflight[2].session.userId
  /\ inflight[1].pc = "commit"
  /\ inflight[2].pc = "upsert"
  /\ inflight[1].outcome.outcomeType # inflight[2].outcome.outcomeType

(* C27: at most one queue entry per user is assigned. *)
OneAssignedEntryPerUser ==
  \A p, q \in DOMAIN callQueue :
    ( /\ callQueue[p].userId = callQueue[q].userId
      /\ callQueue[p].status = "assigned"
      /\ callQueue[q].status = "assigned" )
    => p = q

(* C28: recordCallOutcome for an id that names no call session ends with
   the not-found error and leaves every table as it was. *)
UnknownSessionRejected ==
  \A s \in (1..(Len(callSession) + 1)) \ DOMAIN callSession, a \in Agents,
     o \in OutcomeInputs(now), f \in FailPointsRecord :
    LET res == RecordCallOutcomeSteps(DB, s, a, o, f, now)
    IN  res.error = "not_found" /\ Transaction(DB, res) = DB

\* an outcome was sent for a session id that names no session
UnknownSessionTried ==
  /\ response = Response("recordCallOutcome", "not_found")
  /\ callOutcome = <<>>

(* C29: no operation changes or removes an outcome row: initiateCall,
   updateCallStatus and the webhook handler leave the outcomes as they are,
   a successful recordCallOutcome appends one row and a failed one none. *)
OutcomesAppendOnly ==
  /\ \A userId \in Users, agentId \in Agents, queueId \in QueueIdInputs,
        fail \in FailPointsInitiate :
       LET res == InitiateCallSteps(DB, userId, agentId, queueId, fail, now)
       IN  Transaction(DB, res).callOutcome = callOutcome
  /\ \A s \in DOMAIN callSession :
       /\ \A u \in UpdateInputs(now) :
            UpdateCallStatusSteps(DB, s, u, now).db.callOutcome = callOutcome
       /\ \A CallStatus \in CallStatuses :
            handleTwilioWebhookSteps(DB, s, CallStatus, now, now)
              .db.callOutcome = callOutcome
       /\ \A a \in Agents, o \in OutcomeInputs(now), f \in FailPointsRecord :
            LET res == RecordCallOutcomeSteps(DB, s, a, o, f, now)
                after == Transaction(DB, res).callOutcome
            IN  IF res.error = "none"
                THEN /\ Len(after) = Len(callOutcome) + 1
                     /\ SubSeq(after, 1, Len(callOutcome)) = callOutcome
                ELSE after = callOutcome

\* an outcome was recorded and the session's status was updated afterwards
OutcomeKeptThroughUpdate ==
  /\ Len(callOutcome) = 1
  /\ callSession[callOutcome[1].callSessionId].status \in TerminalStatuses
  /\ response = Response("updateCallStatus", "none")

(* C30: once an outcome is recorded at time now, the user is not offered as
   a fresh priority call before now + the outcome's delay (the override if
   one was given, the table's delay otherwise) and is offered from then on. *)
IneligibleUntilDelayPasses ==
  [][\A s \in 1..MaxSessions, o \in OutcomeInputs(now) :
       Records(s, o)
       => LET u == callSession[s].userId
              h == IF o.nextCallDelayHours # Null
                   THEN Get(o.nextCallDelayHours)
                   ELSE CanonicalDelay[o.outcomeType]
              due == now + h * HourMs
              stored == userCallScore'[u].nextCallAfter
          IN  \A t \in {now, due - 1, due, stored - 1, stored} :
                t >= now =>
                  (u \in priorityCallQueue(userCallScore', t) <=> t >= due)]_vars

\* the example of the specification: A (user 1) has score 10 and B (user 2)
\* score 5, both eligible now; C (user 3) has score 1 and is eligible in an
\* hour
ExampleScores ==
  [u \in {1, 2, 3} |->
     [currentScore |-> IF u = 1 THEN 10 ELSE IF u = 2 THEN 5 ELSE 1,
      lastOutcome |-> "no_answer", lastCallAt |-> 0, totalAttempts |-> 1,
      nextCallAfter |-> IF u = 3 THEN HourMs ELSE 0]]

UsersOf(queue) == [i \in DOMAIN queue |-> queue[i].userId]

\* a follow-up item, as the builder would hand it to the ordering
FollowUpItem(u, score) ==
  [queueType |-> "follow_up", userId |-> u, priorityScore |-> score,
   at |-> 0, callbackId |-> Null]

\* the times the queue is asked for
QueueTimes == {now, now + HourMs, now + 4 * HourMs}

(* C31: the queue is in the order of queueType precedence (due callbacks,
   priority calls, follow-ups), then ascending priorityScore, then
   ascending createdAt/scheduledFor; for the example it is [B, A] now and
   [C, B, A] an hour later. *)
QueueOrdered ==
  /\ UsersOf(buildQueue(ExampleScores, <<>>, 0)) = <<2, 1>>
  /\ UsersOf(buildQueue(ExampleScores, <<>>, HourMs)) = <<3, 2, 1>>
  /\ \A t \in QueueTimes :
       LET items == CallbackItems(userCallScore, callback, t)
                      \cup PriorityCallItems(userCallScore, t)
                      \cup {FollowUpItem(1, 0)}
           q == orderQueue(items)
           rank == [callback |-> 1, priority_call |-> 2, follow_up |-> 3]
       IN  /\ {q[i] : i \in DOMAIN q} = items
           /\ Len(q) = Cardinality(items)
           /\ \A i, j \in DOMAIN q :
                i < j =>
                  \/ rank[q[i].queueType] < rank[q[j].queueType]
                  \/ /\ q[i].queueType = q[j].queueType
                     /\ \/ q[i].priorityScore < q[j].priorityScore
                        \/ /\ q[i].priorityScore = q[j].priorityScore
                           /\ q[i].at <= q[j].at

\* a due callback and two users with different scores are there to order
QueueHasAllKinds ==
  /\ Len(buildQueue(userCallScore, callback, now + 4 * HourMs)) = 3
  /\ \E c \in DOMAIN callback : callback[c].status = "pending"
  /\ \E u, v \in DOMAIN userCallScore :
       userCallScore[u].currentScore < userCallScore[v].currentScore

\* the callbacks offered in the queue at time t
CallbacksQueued(scores, callbacks, t) ==
  LET q == buildQueue(scores, callbacks, t)
  IN  {Get(q[i].callbackId) : i \in {i \in DOMAIN q : q[i].callbackId # Null}}

(* C32: a pending callback asked for time T is in the queue at no time
   before T and at every time from T on, however long past due: this holds
   of each callback a recording creates and of each callback stored. *)
CallbackQueuedFromItsTime ==
  /\ \A c \in DOMAIN callback :
       callback[c].status = "pending" =>
         \A t \in {callback[c].scheduledFor - 1, callback[c].scheduledFor,
                   callback[c].scheduledFor + 168 * HourMs} :
           c \in CallbacksQueued(userCallScore, callback, t)
             <=> t >= callback[c].scheduledFor
  /\ \A s \in DOMAIN callSession, o \in OutcomeInputs(now) :
       WantsCallback(o) =>
         LET res == RecordCallOutcomeSteps(DB, s, callSession[s].agentId, o,
                                           "none", now)
             after == Transaction(DB, res)
             T == Get(o.callbackDateTime)
         IN  \A t \in {now, T - 1, T, T + 168 * HourMs} :
               Len(after.callback) \in
                   CallbacksQueued(after.userCallScore, after.callback, t)
                 <=> t >= T

\* a callback is stored that is not yet due
CallbackNotYetDue ==
  \E c \in DOMAIN callback :
    /\ callback[c].status = "pending"
    /\ callback[c].scheduledFor > now
    /\ c \notin CallbacksQueued(userCallScore, callback, now)

\* the place of a status in the order of the session state machine
statusOrder ==
  [initiated |-> 1, connecting |-> 2, ringing |-> 3, connected |-> 4,
   completed |-> 5, failed |-> 5, no_answer |-> 5]

StatusRank(status) ==
  IF status \in DOMAIN statusOrder THEN statusOrder[status] ELSE 0

(* C33: no webhook delivery moves a session's status to an earlier state of
   initiated -> connecting -> ringing -> connected -> terminal, whatever the
   order the events arrive in. *)
StatusOnlyForward ==
  [][response'.op = "handleTwilioWebhook" =>
       \A s \in DOMAIN callSession :
         StatusRank(callSession'[s].status) >= StatusRank(callSession[s].status)]_vars

\* the outcomes recorded for session s by agent a
OutcomesBy(s, a) ==
  {i \in DOMAIN callOutcome :
     /\ callOutcome[i].callSessionId = s
     /\ callOutcome[i].recordedByAgentId = a}

(* C34: no agent is on_call for a session that is in a terminal status and
   has an outcome recorded by that agent, whichever of the terminal webhook
   and the recording came first. *)
AgentReleasedOnceDone ==
  \A a \in Agents, s \in DOMAIN callSession :
    (/\ callSession[s].status \in TerminalStatuses
     /\ OutcomesBy(s, a) # {})
    => ~(/\ agentSession[a].status = "on_call"
         /\ agentSession[a].currentCallSessionId = Some(s))

(* C35: an agent is on_call exactly when its currentCallSessionId is set,
   and the session it names is one of that agent's own. *)
OnCallIffSessionSet ==
  \A a \in Agents :
    /\ agentSession[a].status = "on_call"
         <=> agentSession[a].currentCallSessionId # Null
    /\ agentSession[a].currentCallSessionId # Null =>
         LET s == Get(agentSession[a].currentCallSessionId)
         IN  s \in DOMAIN callSession /\ callSession[s].agentId = a

\* an agent was put on call and released after the call's end came by webhook
ReleasedAfterWebhook ==
  /\ response = Response("recordCallOutcome", "none")
  /\ \E a \in Agents, s \in DOMAIN callSession :
       /\ callSession[s].agentId = a
       /\ callSession[s].status = "completed"
       /\ callSession[s].twilioCallSid # Null
       /\ OutcomesBy(s, a) # {}
       /\ agentSession[a].status = "available"
       /\ agentSession[a].callsCompletedToday = 1

\* the sessions of agent a that have an outcome recorded by a
SessionsRecordedBy(a) ==
  {s \in DOMAIN callSession :
     callSession[s].agentId = a /\ OutcomesBy(s, a) # {}}

(* C36: an agent's callsCompletedToday never exceeds the number of that
   agent's sessions with an outcome, and the only step that changes it or
   totalTalkTimeSeconds is the release from the session the agent is on:
   one call more and that session's talk time.  A second recording on the
   same session adds nothing. *)
CompletedOncePerSession ==
  /\ [](\A a \in Agents :
          agentSession[a].callsCompletedToday
            <= Cardinality(SessionsRecordedBy(a)))
  /\ [][\A a \in Agents :
          (\/ agentSession'[a].callsCompletedToday
                # agentSession[a].callsCompletedToday
           \/ agentSession'[a].totalTalkTimeSeconds
                # agentSession[a].totalTalkTimeSeconds)
          => /\ agentSession[a].currentCallSessionId # Null
             /\ agentSession'[a].currentCallSessionId = Null
             /\ agentSession'[a].callsCompletedToday
                  = agentSession[a].callsCompletedToday + 1
             /\ agentSession'[a].totalTalkTimeSeconds
                  = agentSession[a].totalTalkTimeSeconds
                    + OrElse(callSession[Get(agentSession[a].currentCallSessionId)]
                               .talkTimeSeconds, 0)]_vars

\* a session with talk time has two outcomes and was counted once
RecordedTwiceCountedOnce ==
  \E a \in Agents, s \in DOMAIN callSession :
    /\ Cardinality(OutcomesBy(s, a)) = 2
    /\ callSession[s].status \in TerminalStatuses
    /\ agentSession[a].callsCompletedToday = 1
    /\ agentSession[a].totalTalkTimeSeconds = 1

(* C37: a queue entry that is completed or cancelled is not set back to
   assigned or pending by any later step. *)
QueueEntryRetiredForGood ==
  [][\A q \in DOMAIN callQueue :
       callQueue[q].status \in {"completed", "cancelled"}
       => callQueue'[q].status \notin {"assigned", "pending"}]_vars

\* the sessions of agent a that are in a status that is not terminal
OpenSessionsOf(a) ==
  {s \in DOMAIN callSession :
     /\ callSession[s].agentId = a
     /\ callSession[s].status \in OpenStatuses}

(* C38: an agent has at most one call session in a status that is not
   terminal. *)
OneOpenSessionPerAgent ==
  \A a \in Agents : Cardinality(OpenSessionsOf(a)) <= 1

====
